---- MODULE Spec2Model ----
(***************************************************************************)
(* Model of the video-transcriber pipeline: processVideo (src/src/index.js)*)
(* with its stages splitAudio, transcribeChunks, mergeTranscriptions,      *)
(* translateSRT and cleanupTemporaryFiles, transcribeAudio                 *)
(* (src/src/transcribe.js) and translateSubtitles (src/src/translate.js).  *)
(*                                                                         *)
(* Times are JavaScript numbers in seconds; the model counts them in ticks *)
(* of 1/TicksPerSecond second so that the truncation to milliseconds done  *)
(* by secondsToSRTTime is visible.  A string with line breaks is a         *)
(* sequence of lines; the empty string is the empty sequence.              *)
(***************************************************************************)
EXTENDS Integers, Sequences, FiniteSets, TLC

(***************************************************************************)
(* Bounds of the model.                                                    *)
(***************************************************************************)
MaxEntries == 380        \* longest subtitle document given to the chunker
SmallDocs == 50          \* documents of 0..SmallDocs entries are all tried
LargeDocsFrom == 370     \* and so are those of LargeDocsFrom..MaxEntries
MaxChunks == 2           \* audio chunk files a split can write
MaxRuns == 2             \* processVideo calls in a behaviour
MaxDocSegments == 3      \* segments of a document serialized and read back

(***************************************************************************)
(* Program constants.                                                      *)
(***************************************************************************)
reservedTokens == 500
maxEntriesPerChunk == 15
maxApiCalls == 25
tokensPerMessage == 3
primingTokens == 3
segmentDuration == 300

\* times are counted in ticks, ten to the millisecond, so that the cut of a
\* time to milliseconds is visible
TicksPerSecond == 10000

Min(a, b) == IF a < b THEN a ELSE b

(***************************************************************************)
(* Lines of an SRT file.  Every line is a record of the same shape: the    *)
(* numeric id line, the time-range line (two times already formatted to    *)
(* millisecond precision) or a line of text.  The empty line is the text   *)
(* line "".                                                                *)
(***************************************************************************)
IdLine(n) == [k |-> "id", n |-> n, t1 |-> 0, t2 |-> 0, s |-> ""]
TimeLine(a, b) == [k |-> "time", n |-> 0, t1 |-> a, t2 |-> b, s |-> ""]
TextLine(str) == [k |-> "text", n |-> 0, t1 |-> 0, t2 |-> 0, s |-> str]
IsBlank(line) == line.k = "text" /\ line.s = ""

(***************************************************************************)
(* The tokenizer (encoding.encode(x).length) is an external collaborator:  *)
(* the model fixes a token count per line and adds the counts of the lines *)
(* of a string, as the chunker itself assumes when it adds entry costs.    *)
(***************************************************************************)
TextTokens(str) ==
  CASE str = "" -> 0
    [] str = "long" -> 380
    [] str = "huge" -> 3600
    [] OTHER -> 8

LineTokens(line) ==
  CASE line.k = "id" -> 1
    [] line.k = "time" -> 17
    [] OTHER -> TextTokens(line.s)

RECURSIVE SumLineTokens(_)
SumLineTokens(lines) ==
  IF lines = <<>> THEN 0
  ELSE LineTokens(Head(lines)) + 1 + SumLineTokens(Tail(lines))

\* encoding.encode(entry + '\n\n').length
EntryTokens(entry) == SumLineTokens(entry) + 1

\* encoding.encode(basePrompt).length: the prompt carries the rules of the
\* target language, which exist for en and ja only
BasePromptTokens(lang) ==
  CASE lang = "ja" -> 1600
    [] lang = "en" -> 700
    [] OTHER -> 150

MaxModelTokens(model) ==
  CASE model = "gpt-4o" -> 4096
    [] model = "gpt-3.5-turbo" -> 4096
    [] model = "gpt-4" -> 8192
    [] OTHER -> 2048


(***************************************************************************)
(* State.                                                                  *)
(*   audioDir        the shared directory of output_audio_partNNN.mp3      *)
(*                   files: chunk index -> [run, duration] or NoFile       *)
(*   run             number of the processVideo call (0 before the first)  *)
(*   pc              position of the current processVideo call             *)
(*   input           its arguments and whether videoPath exists            *)
(*   audioFiles, i, allSegments, cumulativeDuration                        *)
(*                   locals of transcribeChunks                            *)
(*   originalSrt     content of subtitles_original.srt: [run, lines]       *)
(*   detectedLanguage                                                      *)
(*   langIdx, translationStats   loop index and totals of translateSRT     *)
(*   tpc             position inside translateSubtitles                    *)
(*   srtEntries, basePromptTokens, maxModelTokens, chunks, rechunked,      *)
(*   index, translatedSrtContent, usage, translationResult                 *)
(*                   locals and return value of translateSubtitles; an     *)
(*                   entry of a chunk is named by its position in          *)
(*                   srtEntries                                            *)
(*   outputs         subtitles_<lang>.srt files: lang -> [run, content]    *)
(*   progress        the (percentage, message) events of the current run   *)
(*   calls           the collaborator requests of the current run          *)
(*   outcome         what the current processVideo call settled with       *)
(***************************************************************************)
VARIABLES audioDir, run, pc, input, audioFiles, i, allSegments,
          cumulativeDuration, originalSrt, detectedLanguage, langIdx,
          translationStats, tpc, srtEntries, basePromptTokens,
          maxModelTokens, chunks, rechunked, index, translatedSrtContent,
          usage, translationResult, outputs, progress, calls, outcome

fileVars == <<audioDir, originalSrt, outputs>>
runVars == <<run, pc, input, outcome>>
transcribeVars == <<audioFiles, i, allSegments, cumulativeDuration>>
srtVars == <<detectedLanguage, langIdx, translationStats>>
translateVars == <<tpc, srtEntries, basePromptTokens, maxModelTokens, chunks,
                   rechunked, index, translatedSrtContent, usage,
                   translationResult>>
logVars == <<progress, calls>>

\* renderer.js: the form, the start button, and the click handlers that are
\* awaiting the directory dialog or the run they started
VARIABLES selectedVideoPath, checked, apiKeyInput, modelSelect,
          startBtnDisabled, choosing, processing

uiVars == <<selectedVideoPath, checked, apiKeyInput, modelSelect,
            startBtnDisabled, choosing, processing>>
vars == <<fileVars, runVars, transcribeVars, srtVars, translateVars, logVars,
          uiVars>>

(***************************************************************************)
(* translateSubtitles: reading the SRT file back into entries.             *)
(***************************************************************************)
RECURSIVE DropLeadingBlank(_)
DropLeadingBlank(lines) ==
  IF lines # <<>> /\ IsBlank(Head(lines)) THEN DropLeadingBlank(Tail(lines))
  ELSE lines

RECURSIVE DropTrailingBlank(_)
DropTrailingBlank(lines) ==
  IF lines # <<>> /\ IsBlank(lines[Len(lines)])
  THEN DropTrailingBlank(SubSeq(lines, 1, Len(lines) - 1))
  ELSE lines

\* String.prototype.trim on a string given as its lines
Trim(lines) == DropTrailingBlank(DropLeadingBlank(lines))

\* content.split('\n\n'), scanned left to right: "\n\n" is an empty line that
\* is not the last line and is not the first line of its piece, that is,
\* the line before it is not itself a separator
RECURSIVE IsSeparator(_, _)
IsSeparator(lines, p) ==
  /\ 1 < p /\ p < Len(lines)
  /\ IsBlank(lines[p])
  /\ ~IsSeparator(lines, p - 1)

\* the separators among lines[lo..hi], in increasing order
RECURSIVE Separators(_, _, _)
Separators(lines, lo, hi) ==
  IF lo > hi THEN <<>>
  ELSE IF lo = hi THEN (IF IsSeparator(lines, lo) THEN <<lo>> ELSE <<>>)
  ELSE LET mid == (lo + hi) \div 2
       IN Separators(lines, lo, mid) \o Separators(lines, mid + 1, hi)

SplitBlankLines(lines) ==
  LET seps == Separators(lines, 1, Len(lines))
      from(j) == IF j = 1 THEN 1 ELSE seps[j - 1] + 1
      to(j) == IF j = Len(seps) + 1 THEN Len(lines) ELSE seps[j] - 1
  IN [j \in 1..(Len(seps) + 1) |-> SubSeq(lines, from(j), to(j))]

\* .filter(Boolean): the empty string is dropped (a piece that is the single
\* empty line is the empty string)
IsEmptyString(piece) == piece = <<>> \/ piece = <<TextLine("")>>

ParseSrt(content) ==
  SelectSeq(SplitBlankLines(Trim(content)), LAMBDA piece : ~IsEmptyString(piece))

(***************************************************************************)
(* translateSubtitles: building the chunks.  The state of the greedy loop  *)
(* is the record [chunks, currentChunkEntries, currentChunkTokens].        *)
(***************************************************************************)
GreedyInit(base) ==
  [chunks |-> <<>>, currentChunkEntries |-> <<>>, currentChunkTokens |-> base]

\* GreedyStep with the entry that closes a buffer lost
GreedyStepDropsEntry(st, entries, pos, base, tokensPerRequest) ==
  LET entryTokens == EntryTokens(entries[pos])
  IN IF \/ Len(st.currentChunkEntries) + 1 > maxEntriesPerChunk
        \/ st.currentChunkTokens + 3 * entryTokens > tokensPerRequest
     THEN [chunks |-> IF Len(st.currentChunkEntries) > 0
                      THEN Append(st.chunks, st.currentChunkEntries)
                      ELSE st.chunks,
           currentChunkEntries |-> <<>>,
           currentChunkTokens |-> base]
     ELSE [chunks |-> st.chunks,
           currentChunkEntries |-> Append(st.currentChunkEntries, pos),
           currentChunkTokens |-> st.currentChunkTokens + entryTokens]

\* GreedyStep with the entry cap tested one entry late
GreedyStepCapLate(st, entries, pos, base, tokensPerRequest) ==
  LET entryTokens == EntryTokens(entries[pos])
  IN IF \/ Len(st.currentChunkEntries) > maxEntriesPerChunk
        \/ st.currentChunkTokens + 3 * entryTokens > tokensPerRequest
     THEN [chunks |-> IF Len(st.currentChunkEntries) > 0
                      THEN Append(st.chunks, st.currentChunkEntries)
                      ELSE st.chunks,
           currentChunkEntries |-> <<pos>>,
           currentChunkTokens |-> base + entryTokens]
     ELSE [chunks |-> st.chunks,
           currentChunkEntries |-> Append(st.currentChunkEntries, pos),
           currentChunkTokens |-> st.currentChunkTokens + entryTokens]

\* GreedyStep without the token test
GreedyStepNoTokenTest(st, entries, pos, base, tokensPerRequest) ==
  LET entryTokens == EntryTokens(entries[pos])
  IN IF Len(st.currentChunkEntries) + 1 > maxEntriesPerChunk
     THEN [chunks |-> IF Len(st.currentChunkEntries) > 0
                      THEN Append(st.chunks, st.currentChunkEntries)
                      ELSE st.chunks,
           currentChunkEntries |-> <<pos>>,
           currentChunkTokens |-> base + entryTokens]
     ELSE [chunks |-> st.chunks,
           currentChunkEntries |-> Append(st.currentChunkEntries, pos),
           currentChunkTokens |-> st.currentChunkTokens + entryTokens]

\* GreedyStep testing the buffer as it is, without the entry
GreedyStepFitBeforeAdd(st, entries, pos, base, tokensPerRequest) ==
  LET entryTokens == EntryTokens(entries[pos])
  IN IF \/ Len(st.currentChunkEntries) + 1 > maxEntriesPerChunk
        \/ st.currentChunkTokens > tokensPerRequest
     THEN [chunks |-> IF Len(st.currentChunkEntries) > 0
                      THEN Append(st.chunks, st.currentChunkEntries)
                      ELSE st.chunks,
           currentChunkEntries |-> <<pos>>,
           currentChunkTokens |-> base + entryTokens]
     ELSE [chunks |-> st.chunks,
           currentChunkEntries |-> Append(st.currentChunkEntries, pos),
           currentChunkTokens |-> st.currentChunkTokens + entryTokens]

\* GreedyStep advancing the running count by the expanded cost
GreedyStepAddsExpanded(st, entries, pos, base, tokensPerRequest) ==
  LET entryTokens == EntryTokens(entries[pos])
      estimatedTranslationTokens == 2 * entryTokens
  IN IF \/ Len(st.currentChunkEntries) + 1 > maxEntriesPerChunk
        \/ st.currentChunkTokens + entryTokens + estimatedTranslationTokens
             > tokensPerRequest
     THEN [chunks |-> IF Len(st.currentChunkEntries) > 0
                      THEN Append(st.chunks, st.currentChunkEntries)
                      ELSE st.chunks,
           currentChunkEntries |-> <<pos>>,
           currentChunkTokens |-> base + entryTokens]
     ELSE [chunks |-> st.chunks,
           currentChunkEntries |-> Append(st.currentChunkEntries, pos),
           currentChunkTokens |-> st.currentChunkTokens + entryTokens
                                    + estimatedTranslationTokens]

\* one iteration of `for (const entry of srtEntries)`, entry = entries[pos]
GreedyStep(st, entries, pos, base, tokensPerRequest) ==
  LET entryTokens == EntryTokens(entries[pos])
      estimatedTranslationTokens == 2 * entryTokens
  IN IF \/ Len(st.currentChunkEntries) + 1 > maxEntriesPerChunk
        \/ st.currentChunkTokens + entryTokens + estimatedTranslationTokens
             > tokensPerRequest
     THEN [chunks |-> IF Len(st.currentChunkEntries) > 0
                      THEN Append(st.chunks, st.currentChunkEntries)
                      ELSE st.chunks,
           currentChunkEntries |-> <<pos>>,
           currentChunkTokens |-> base + entryTokens]
     ELSE [chunks |-> st.chunks,
           currentChunkEntries |-> Append(st.currentChunkEntries, pos),
           currentChunkTokens |-> st.currentChunkTokens + entryTokens]

\* the loop state after the iterations for entries[lo..hi], started in st
RECURSIVE GreedyRange(_, _, _, _, _, _)
GreedyRange(st, entries, lo, hi, base, tokensPerRequest) ==
  IF lo > hi THEN st
  ELSE IF lo = hi THEN GreedyStep(st, entries, lo, base, tokensPerRequest)
  ELSE LET mid == (lo + hi) \div 2
           half == GreedyRange(st, entries, lo, mid, base, tokensPerRequest)
       IN IF half.currentChunkTokens < base
          THEN half       \* never so: the test makes TLC evaluate half first
          ELSE GreedyRange(half, entries, mid + 1, hi, base, tokensPerRequest)

\* the loop state after the first n entries
GreedyLoop(entries, n, base, tokensPerRequest) ==
  GreedyRange(GreedyInit(base), entries, 1, n, base, tokensPerRequest)

\* "Push last chunk"
GreedyFlush(st) ==
  IF Len(st.currentChunkEntries) > 0
  THEN Append(st.chunks, st.currentChunkEntries)
  ELSE st.chunks

GreedyChunks(entries, base, tokensPerRequest) ==
  GreedyFlush(GreedyLoop(entries, Len(entries), base, tokensPerRequest))

\* Math.ceil(a / b) for a >= 0, b > 0
CeilDiv(a, b) == (a + b - 1) \div b

\* srtEntries.slice(from, from + size) as positions (from is 0-based)
Slice(n, from, size) == [k \in 1..(Min(from + size, n) - from) |-> from + k]

\* RechunkWith with the slice size rounded down
RechunkRoundsDown(n, maxCalls) ==
  LET entriesPerChunk == n \div maxCalls
  IN [c \in 1..CeilDiv(n, entriesPerChunk) |->
        Slice(n, (c - 1) * entriesPerChunk, entriesPerChunk)]

\* "Ensure max API calls": the slices of entriesPerChunk entries
RechunkWith(n, maxCalls) ==
  LET entriesPerChunk == CeilDiv(n, maxCalls)
  IN [c \in 1..CeilDiv(n, entriesPerChunk) |->
        Slice(n, (c - 1) * entriesPerChunk, entriesPerChunk)]

Rechunk(n) == RechunkWith(n, maxApiCalls)

\* NeedsRechunk with the ceiling on the number of calls forgotten
NeedsRechunkNever(greedy) == FALSE

NeedsRechunk(greedy) == Len(greedy) > maxApiCalls

BuildChunks(entries, base, tokensPerRequest) ==
  LET greedy == GreedyChunks(entries, base, tokensPerRequest)
  IN IF NeedsRechunk(greedy) THEN Rechunk(Len(entries)) ELSE greedy

\* token costs of a chunk (a sequence of positions in entries)
RECURSIVE ChunkRawTokens(_, _)
ChunkRawTokens(entries, chunk) ==
  IF chunk = <<>> THEN 0
  ELSE EntryTokens(entries[Head(chunk)]) + ChunkRawTokens(entries, Tail(chunk))

\* countMessageTokens of the single user message basePrompt + "\n\n" + chunk
CountMessageTokens(entries, chunk, base) ==
  tokensPerMessage + 1 + (base + 1 + ChunkRawTokens(entries, chunk))
    + primingTokens

(***************************************************************************)
(* Inputs and collaborator answers the model draws from.                   *)
(***************************************************************************)
ChunkIndexes == 0..(MaxChunks - 1)
NoFile == [run |-> 0, duration |-> 0]

\* the transcoder cuts at segmentDuration seconds: every chunk lasts that long
\* but the last one, which lasts 7.5 s or as long as the others
SegmentTime == segmentDuration * TicksPerSecond
LastDurations == {75000, SegmentTime}
ChunkDurations(n, last) ==
  [idx \in 0..(n - 1) |-> IF idx = n - 1 THEN last ELSE SegmentTime]

Models == {"gpt-4o", "text-davinci-003"}
Inputs ==
  {[videoExists |-> exists, targetLanguages |-> c[1], model |-> c[2]] :
     exists \in BOOLEAN,
     c \in {<< <<"es">>, "gpt-4o" >>, << <<"ja", "es">>, "text-davinci-003" >>}}
NoInput == [videoExists |-> FALSE, targetLanguages |-> <<>>, model |-> ""]

\* a segment of a verbose_json answer: it has no language field of its own
Seg(a, b, text) == [start |-> a, end |-> b, text |-> text, language |-> ""]

\* answers of the speech-to-text service for one chunk:
\* transcriptionData.language (empty when none is reported) and
\* transcriptionData.segments in chunk-local time: no segment, one long
\* segment at 2 s to 4 s, one segment at 1 s to 3 s, two segments out of
\* order (one with line breaks around its text)
Answer(language, segments) == [language |-> language, segments |-> segments]
Answers ==
  { Answer("", <<>>),
    Answer("fr", <<Seg(20000, 40000, <<"long">>)>>),
    Answer("", <<Seg(10000, 30000, <<"world">>)>>),
    Answer("ja", <<Seg(50000, 60000, <<"b">>),
                   Seg(10000, 30000, <<"", "a", "">>)>>) }
SegmentLists == {answer.segments : answer \in Answers}

NoStats == [tokensUsed |-> 0, inputTokens |-> 0, outputTokens |-> 0,
            apiCalls |-> 0]
NoUsage == [totalTokens |-> 0, inputTokens |-> 0, outputTokens |-> 0,
            apiCalls |-> 0]
Undefined == [tokensUsed |-> -1, inputTokens |-> -1, outputTokens |-> -1,
              apiCalls |-> -1]
NoSrt == [run |-> 0, lines |-> <<>>]

Event(num, den, msg) == [num |-> num, den |-> den, msg |-> msg]
\* a request to a collaborator and its answer: the audio file sent, its
\* writer, the offset the loop held for it, the language and the number of
\* segments answered; or the language and number of the translation chunk
\* sent, its max_tokens and the total_tokens of the usage answered
TranscribeCall(file, offset, ok, segments, language) ==
  [kind |-> "transcribe", file |-> file, writer |-> audioDir[file].run,
   offset |-> offset, ok |-> ok, segments |-> Len(segments),
   language |-> language, lang |-> "", chunk |-> 0, maxTokens |-> 0,
   tokens |-> 0]
TranslateCall(lang, chunk, ok, maxTokens, tokens) ==
  [kind |-> "translate", file |-> 0, writer |-> 0, offset |-> 0, ok |-> ok,
   segments |-> 0, language |-> "", lang |-> lang, chunk |-> chunk,
   maxTokens |-> maxTokens, tokens |-> tokens]

(***************************************************************************)
(* mergeTranscriptions: sorting, formatting and serializing.               *)
(***************************************************************************)
\* position at which seg goes into the sorted sequence: after every element
\* whose start is not greater (the sort is stable)
RECURSIVE InsertByStart(_, _)
InsertByStart(sorted, seg) ==
  IF sorted = <<>> THEN <<seg>>
  ELSE IF sorted[Len(sorted)].start <= seg.start THEN Append(sorted, seg)
  ELSE Append(InsertByStart(SubSeq(sorted, 1, Len(sorted) - 1), seg),
              sorted[Len(sorted)])

\* SortByStart with the sort left out
SortByStartOmitted(segs) == segs

\* allSegments.sort((a, b) => a.start - b.start)
RECURSIVE SortByStart(_)
SortByStart(segs) ==
  IF segs = <<>> THEN <<>>
  ELSE InsertByStart(SortByStart(SubSeq(segs, 1, Len(segs) - 1)),
                     segs[Len(segs)])

\* secondsToSRTTime: HH:MM:SS,mmm, given as the milliseconds it denotes
secondsToSRTTime(t) ==
  LET hours == t \div (3600 * TicksPerSecond)
      minutes == (t % (3600 * TicksPerSecond)) \div (60 * TicksPerSecond)
      seconds == (t % (60 * TicksPerSecond)) \div TicksPerSecond
      milliseconds == ((t % TicksPerSecond) * 1000) \div TicksPerSecond
  IN ((hours * 60 + minutes) * 60 + seconds) * 1000 + milliseconds

\* the lines of a string given as a sequence of non-line-break runs
TextLines(text) ==
  IF text = <<>> THEN <<TextLine("")>>
  ELSE [k \in 1..Len(text) |-> TextLine(text[k])]

\* segment.text.trim() on a text given as its sequence of lines
RECURSIVE TrimText(_)
TrimText(text) ==
  IF text = <<>> THEN <<>>
  ELSE IF Head(text) = "" THEN TrimText(Tail(text))
  ELSE IF text[Len(text)] = "" THEN TrimText(SubSeq(text, 1, Len(text) - 1))
  ELSE text

\* `${id}\n${startTime} --> ${endTime}\n${text}\n`
SrtEntry(segment, id) ==
  <<IdLine(id),
    TimeLine(secondsToSRTTime(segment.start), secondsToSRTTime(segment.end))>>
    \o TextLines(TrimText(segment.text)) \o <<TextLine("")>>

\* srtEntries.join('\n') of the entries of segments lo..hi
RECURSIVE JoinEntries(_, _, _)
JoinEntries(segs, lo, hi) ==
  IF lo > hi THEN <<>>
  ELSE IF lo = hi THEN SrtEntry(segs[lo], lo)
  ELSE LET mid == (lo + hi) \div 2
       IN JoinEntries(segs, lo, mid) \o JoinEntries(segs, mid + 1, hi)

SrtContent(segs) == JoinEntries(segs, 1, Len(segs))

DetectedLanguage(segs) ==
  IF segs[1].language # "" THEN segs[1].language ELSE "en"

(***************************************************************************)
(* processVideo.                                                           *)
(***************************************************************************)
Settled == pc \in {"idle", "done", "failed"}
NoOutcome == [status |-> "none", stats |-> NoStats, error |-> ""]
Pending == [status |-> "pending", stats |-> NoStats, error |-> ""]
Rejected(error) == [status |-> "rejected", stats |-> NoStats, error |-> error]
Resolved(stats) == [status |-> "resolved", stats |-> stats, error |-> ""]

NoOutputs == [lang \in {"ja", "es"} |-> [run |-> 0, content |-> <<>>]]

targetLanguages == input.targetLanguages
totalTranslations == Len(targetLanguages)
totalAudioChunks == Len(audioFiles)

TranslateIdle ==
  /\ tpc = "none" /\ srtEntries = <<>> /\ basePromptTokens = 0
  /\ maxModelTokens = 0 /\ chunks = <<>> /\ rechunked = FALSE /\ index = 0
  /\ translatedSrtContent = <<>> /\ usage = NoUsage
  /\ translationResult = NoStats

\* renderer.js lines 13-39: no video selected, no box checked, the fields
\* empty, the button enabled
Null == "null"
InitRenderer ==
  /\ selectedVideoPath = Null /\ checked = {}
  /\ apiKeyInput = "" /\ modelSelect = ""
  /\ startBtnDisabled = FALSE /\ choosing = 0 /\ processing = 0

Init ==
  /\ audioDir = [idx \in ChunkIndexes |-> NoFile]
  /\ run = 0 /\ pc = "idle" /\ input = NoInput /\ outcome = NoOutcome
  /\ audioFiles = <<>> /\ i = 0 /\ allSegments = <<>>
  /\ cumulativeDuration = 0
  /\ originalSrt = NoSrt /\ detectedLanguage = "" /\ langIdx = 0
  /\ translationStats = NoStats
  /\ TranslateIdle
  /\ outputs = NoOutputs /\ progress = <<>> /\ calls = <<>>
  /\ InitRenderer

\* ProcessVideo without the test that videoPath exists
ProcessVideoUnchecked(inp) ==
  /\ Settled /\ run < MaxRuns
  /\ run' = run + 1
  /\ input' = inp
  /\ originalSrt' = NoSrt /\ outputs' = NoOutputs
  /\ audioFiles' = <<>> /\ i' = 0 /\ allSegments' = <<>>
  /\ cumulativeDuration' = 0
  /\ detectedLanguage' = "" /\ langIdx' = 0 /\ translationStats' = NoStats
  /\ calls' = <<>>
  /\ IF TRUE
     THEN /\ progress' = <<Event(0, 1, "Extracting and splitting audio...")>>
          /\ pc' = "split" /\ outcome' = Pending
     ELSE /\ progress' = <<>>
          /\ pc' = "failed"
          /\ outcome' = Rejected("Video file not found at the specified path.")
  /\ UNCHANGED <<audioDir, translateVars>>
  /\ UNCHANGED uiVars

\* a call of processVideo, up to the start of the transcoder (lines 28-36);
\* the call is given an empty saveDirectory
ProcessVideo(inp) ==
  /\ Settled /\ run < MaxRuns
  /\ run' = run + 1
  /\ input' = inp
  /\ originalSrt' = NoSrt /\ outputs' = NoOutputs
  /\ audioFiles' = <<>> /\ i' = 0 /\ allSegments' = <<>>
  /\ cumulativeDuration' = 0
  /\ detectedLanguage' = "" /\ langIdx' = 0 /\ translationStats' = NoStats
  /\ calls' = <<>>
  /\ IF inp.videoExists
     THEN /\ progress' = <<Event(0, 1, "Extracting and splitting audio...")>>
          /\ pc' = "split" /\ outcome' = Pending
     ELSE /\ progress' = <<>>
          /\ pc' = "failed"
          /\ outcome' = Rejected("Video file not found at the specified path.")
  /\ UNCHANGED <<audioDir, translateVars>>
  /\ UNCHANGED uiVars

\* ffmpeg 'end': the transcoder wrote parts 0..n-1 over what was there
SplitEnd(n, durations) ==
  /\ pc = "split"
  /\ audioDir' = [idx \in ChunkIndexes |->
                    IF idx < n THEN [run |-> run, duration |-> durations[idx]]
                    ELSE audioDir[idx]]
  /\ progress' = Append(progress,
                   Event(10, 1, "Audio extraction and splitting completed."))
  /\ pc' = "list"
  /\ UNCHANGED <<originalSrt, outputs, run, input, outcome, transcribeVars,
                 srtVars, translateVars, calls>>
  /\ UNCHANGED uiVars

\* ffmpeg 'error', after it wrote parts 0..n-1
SplitError(n, durations) ==
  /\ pc = "split"
  /\ audioDir' = [idx \in ChunkIndexes |->
                    IF idx < n THEN [run |-> run, duration |-> durations[idx]]
                    ELSE audioDir[idx]]
  /\ pc' = "failed" /\ outcome' = Rejected("ffmpeg")
  /\ UNCHANGED <<originalSrt, outputs, run, input, transcribeVars, srtVars,
                 translateVars, logVars>>
  /\ UNCHANGED uiVars

Present == {idx \in ChunkIndexes : audioDir[idx] # NoFile}

\* the orders in which readdirSync may list the files: Node documents none
Listings(files) ==
  {order \in [1..Cardinality(files) -> files] :
     \A a, b \in 1..Cardinality(files) : a # b => order[a] # order[b]}

\* transcribeChunks, lines 131-140
ListAudioFiles(order) ==
  /\ pc = "list"
  /\ audioFiles' = order /\ i' = 0 /\ allSegments' = <<>>
  /\ cumulativeDuration' = 0
  /\ pc' = "transcribe"
  /\ UNCHANGED <<fileVars, run, input, outcome, srtVars, translateVars,
                 logVars>>
  /\ UNCHANGED uiVars

\* TranscribeProgress counting down from 50
TranscribeProgressDescends ==
  Event(50 * (totalAudioChunks + 4) - 40 * (i + 1), totalAudioChunks + 4,
        "Transcribing chunk")

TranscribeProgress ==
  Event(10 * (totalAudioChunks + 4) + 40 * (i + 1), totalAudioChunks + 4,
        "Transcribing chunk")

AdjustSegments(segments, offset) ==
  [k \in 1..Len(segments) |->
     [segments[k] EXCEPT !.start = @ + offset, !.end = @ + offset]]

\* one iteration of the loop of transcribeChunks whose transcribeAudio call
\* answers with segments and whose ffprobe call answers
TranscribeChunk(segments, language) ==
  /\ pc = "transcribe" /\ i < totalAudioChunks
  /\ progress' = Append(progress, TranscribeProgress)
  /\ calls' = Append(calls, TranscribeCall(audioFiles[i + 1],
                                          cumulativeDuration, TRUE, segments,
                                          language))
  /\ allSegments' = allSegments \o AdjustSegments(segments, cumulativeDuration)
  /\ cumulativeDuration' = cumulativeDuration + audioDir[audioFiles[i + 1]].duration
  /\ i' = i + 1
  /\ UNCHANGED <<fileVars, runVars, audioFiles, srtVars, translateVars>>
  /\ UNCHANGED uiVars

\* TranscribeFails with the failed chunk skipped
TranscribeFailsSkipsChunk ==
  /\ pc = "transcribe" /\ i < totalAudioChunks
  /\ progress' = Append(progress, TranscribeProgress)
  /\ calls' = Append(calls, TranscribeCall(audioFiles[i + 1],
                                          cumulativeDuration, FALSE, <<>>, ""))
  /\ i' = i + 1
  /\ UNCHANGED <<fileVars, runVars, audioFiles, allSegments,
                 cumulativeDuration, srtVars, translateVars>>
  /\ UNCHANGED uiVars

\* the iteration whose transcribeAudio call fails: transcribeAudio catches
\* the error and returns transcriptionData null, transcribeChunks throws
TranscribeFails ==
  /\ pc = "transcribe" /\ i < totalAudioChunks
  /\ progress' = Append(progress, TranscribeProgress)
  /\ calls' = Append(calls, TranscribeCall(audioFiles[i + 1],
                                          cumulativeDuration, FALSE, <<>>, ""))
  /\ pc' = "failed" /\ outcome' = Rejected("Transcription failed for chunk")
  /\ UNCHANGED <<fileVars, run, input, transcribeVars, srtVars, translateVars>>
  /\ UNCHANGED uiVars

\* the iteration whose ffprobe call fails: getAudioDuration rejects
ProbeFails(segments, language) ==
  /\ pc = "transcribe" /\ i < totalAudioChunks
  /\ progress' = Append(progress, TranscribeProgress)
  /\ calls' = Append(calls, TranscribeCall(audioFiles[i + 1],
                                          cumulativeDuration, TRUE, segments,
                                          language))
  /\ allSegments' = allSegments \o AdjustSegments(segments, cumulativeDuration)
  /\ pc' = "failed" /\ outcome' = Rejected("ffprobe")
  /\ UNCHANGED <<fileVars, run, input, audioFiles, i, cumulativeDuration,
                 srtVars, translateVars>>
  /\ UNCHANGED uiVars

\* processVideo lines 54-57 with mergeTranscriptions
MergeTranscriptions ==
  /\ pc = "transcribe" /\ i = totalAudioChunks
  /\ IF Len(allSegments) = 0
     THEN /\ progress' = Append(progress, Event(50, 1, "Merging transcriptions..."))
          /\ pc' = "failed"
          /\ outcome' = Rejected("No transcription segments to merge.")
          /\ UNCHANGED <<allSegments, originalSrt, detectedLanguage>>
     ELSE LET sorted == SortByStart(allSegments)
          IN /\ allSegments' = sorted
             /\ detectedLanguage' = DetectedLanguage(sorted)
             /\ originalSrt' = [run |-> run,
                                lines |-> SrtContent(sorted)]
             /\ progress' = Append(Append(progress,
                                Event(50, 1, "Merging transcriptions...")),
                                Event(60, 1, "SRT file generated."))
             /\ pc' = "translate"
             /\ UNCHANGED outcome
  /\ UNCHANGED <<audioDir, outputs, run, input, audioFiles, i,
                 cumulativeDuration, langIdx, translationStats, translateVars,
                 calls>>
  /\ UNCHANGED uiVars

(***************************************************************************)
(* translateSRT and translateSubtitles.                                    *)
(***************************************************************************)
targetLanguage == targetLanguages[langIdx + 1]

\* LanguageProgress spreading the languages over 60% to 100%
LanguageProgressToHundred(msg) ==
  Event(60 * totalTranslations + 40 * (langIdx + 1), totalTranslations, msg)

LanguageProgress(msg) ==
  Event(60 * totalTranslations + 30 * (langIdx + 1), totalTranslations, msg)

\* translateSRT lines 256-272: the next language is started
TranslateLanguage ==
  /\ pc = "translate" /\ tpc = "none" /\ langIdx < totalTranslations
  /\ progress' = Append(progress, LanguageProgress("Translating subtitles to"))
  /\ tpc' = "called"
  /\ UNCHANGED <<fileVars, runVars, transcribeVars, srtVars, srtEntries,
                 basePromptTokens, maxModelTokens, chunks, rechunked, index,
                 translatedSrtContent, usage, translationResult, calls>>
  /\ UNCHANGED uiVars

\* translateSubtitles lines 150-246: the file is read and the chunks built
TranslateSubtitles ==
  /\ tpc = "called"
  /\ LET entries == ParseSrt(originalSrt.lines)
         base == BasePromptTokens(targetLanguage)
         maxTokens == MaxModelTokens(input.model)
         tokensPerRequest == maxTokens - reservedTokens
     IN /\ srtEntries' = entries
        /\ basePromptTokens' = base
        /\ maxModelTokens' = maxTokens
        /\ chunks' = BuildChunks(entries, base, tokensPerRequest)
        /\ rechunked' = NeedsRechunk(GreedyChunks(entries, base, tokensPerRequest))
  /\ index' = 0 /\ translatedSrtContent' = <<>> /\ usage' = NoUsage
  /\ tpc' = "dispatch"
  /\ UNCHANGED <<fileVars, runVars, transcribeVars, srtVars, translationResult,
                 logVars>>
  /\ UNCHANGED uiVars

promptTokens == CountMessageTokens(srtEntries, chunks[index + 1], basePromptTokens)
maxResponseTokens == maxModelTokens - promptTokens - reservedTokens

\* ChunkTooLarge staying in the loop on the same chunk
ChunkTooLargeWaits ==
  /\ tpc = "dispatch" /\ index < Len(chunks)
  /\ maxResponseTokens <= 0
  /\ UNCHANGED vars

\* lines 259-264: no room for a response, translateSubtitles returns undefined
ChunkTooLarge ==
  /\ tpc = "dispatch" /\ index < Len(chunks)
  /\ maxResponseTokens <= 0
  /\ translationResult' = Undefined
  /\ tpc' = "returned"
  /\ UNCHANGED <<fileVars, runVars, transcribeVars, srtVars, srtEntries,
                 basePromptTokens, maxModelTokens, chunks, rechunked, index,
                 translatedSrtContent, usage, logVars>>
  /\ UNCHANGED uiVars

\* a response holds the entries of the chunk, or one entry more
ExtraEntries == {0, 1}

AddUsage(u, prompt, completion) ==
  [totalTokens |-> u.totalTokens + prompt + completion,
   inputTokens |-> u.inputTokens + prompt,
   outputTokens |-> u.outputTokens + completion,
   apiCalls |-> u.apiCalls + 1]

\* TranslateChunk without the test of maxResponseTokens
TranslateChunkUnguarded(extra, withUsage) ==
  /\ tpc = "dispatch" /\ index < Len(chunks)
  /\ calls' = Append(calls,
                     TranslateCall(targetLanguage, index + 1, TRUE,
                                   maxResponseTokens,
                                   IF withUsage
                                   THEN promptTokens + ChunkRawTokens(
                                          srtEntries, chunks[index + 1])
                                   ELSE 0))
  /\ translatedSrtContent' =
       Append(translatedSrtContent,
              [chunk |-> index + 1, entries |-> Len(chunks[index + 1]) + extra])
  /\ usage' = IF withUsage
              THEN AddUsage(usage, promptTokens,
                            ChunkRawTokens(srtEntries, chunks[index + 1]))
              ELSE usage
  /\ index' = index + 1
  /\ UNCHANGED <<fileVars, runVars, transcribeVars, srtVars, tpc, srtEntries,
                 basePromptTokens, maxModelTokens, chunks, rechunked,
                 translationResult, progress>>
  /\ UNCHANGED uiVars

\* TranslateChunk staying on the chunk it sent
TranslateChunkAgain(extra, withUsage) ==
  /\ tpc = "dispatch" /\ index < Len(chunks)
  /\ maxResponseTokens > 0
  /\ calls' = Append(calls,
                     TranslateCall(targetLanguage, index + 1, TRUE,
                                   maxResponseTokens,
                                   IF withUsage
                                   THEN promptTokens + ChunkRawTokens(
                                          srtEntries, chunks[index + 1])
                                   ELSE 0))
  /\ translatedSrtContent' =
       Append(translatedSrtContent,
              [chunk |-> index + 1, entries |-> Len(chunks[index + 1]) + extra])
  /\ usage' = IF withUsage
              THEN AddUsage(usage, promptTokens,
                            ChunkRawTokens(srtEntries, chunks[index + 1]))
              ELSE usage
  /\ index' = index
  /\ UNCHANGED <<fileVars, runVars, transcribeVars, srtVars, tpc, srtEntries,
                 basePromptTokens, maxModelTokens, chunks, rechunked,
                 translationResult, progress>>
  /\ UNCHANGED uiVars

\* lines 266-296: the request is sent and answered with the chunk's entries
\* plus `extra`, with usage data or without
TranslateChunk(extra, withUsage) ==
  /\ tpc = "dispatch" /\ index < Len(chunks)
  /\ maxResponseTokens > 0
  /\ calls' = Append(calls,
                     TranslateCall(targetLanguage, index + 1, TRUE,
                                   maxResponseTokens,
                                   IF withUsage
                                   THEN promptTokens + ChunkRawTokens(
                                          srtEntries, chunks[index + 1])
                                   ELSE 0))
  /\ translatedSrtContent' =
       Append(translatedSrtContent,
              [chunk |-> index + 1, entries |-> Len(chunks[index + 1]) + extra])
  /\ usage' = IF withUsage
              THEN AddUsage(usage, promptTokens,
                            ChunkRawTokens(srtEntries, chunks[index + 1]))
              ELSE usage
  /\ index' = index + 1
  /\ UNCHANGED <<fileVars, runVars, transcribeVars, srtVars, tpc, srtEntries,
                 basePromptTokens, maxModelTokens, chunks, rechunked,
                 translationResult, progress>>
  /\ UNCHANGED uiVars

\* TranslateChunkFails with the error thrown on to processVideo
TranslateChunkFailsAborts ==
  /\ tpc = "dispatch" /\ index < Len(chunks)
  /\ maxResponseTokens > 0
  /\ calls' = Append(calls, TranslateCall(targetLanguage, index + 1, FALSE,
                                         maxResponseTokens, 0))
  /\ translationResult' = NoStats
  /\ tpc' = "returned"
  /\ pc' = "failed" /\ outcome' = Rejected("translation")
  /\ UNCHANGED <<fileVars, run, input, transcribeVars, srtVars, srtEntries,
                 basePromptTokens, maxModelTokens, chunks, rechunked, index,
                 translatedSrtContent, usage, progress>>
  /\ UNCHANGED uiVars

\* the request fails: the catch block returns zeroed statistics
TranslateChunkFails ==
  /\ tpc = "dispatch" /\ index < Len(chunks)
  /\ maxResponseTokens > 0
  /\ calls' = Append(calls, TranslateCall(targetLanguage, index + 1, FALSE,
                                         maxResponseTokens, 0))
  /\ translationResult' = NoStats
  /\ tpc' = "returned"
  /\ UNCHANGED <<fileVars, runVars, transcribeVars, srtVars, srtEntries,
                 basePromptTokens, maxModelTokens, chunks, rechunked, index,
                 translatedSrtContent, usage, progress>>
  /\ UNCHANGED uiVars

\* lines 298-312: the translated file is written, the statistics returned
SaveTranslation ==
  /\ tpc = "dispatch" /\ index = Len(chunks)
  /\ outputs' = [outputs EXCEPT ![targetLanguage] =
                   [run |-> run, content |-> translatedSrtContent]]
  /\ translationResult' = [tokensUsed |-> usage.totalTokens,
                           inputTokens |-> usage.inputTokens,
                           outputTokens |-> usage.outputTokens,
                           apiCalls |-> usage.apiCalls]
  /\ tpc' = "returned"
  /\ UNCHANGED <<audioDir, originalSrt, runVars, transcribeVars, srtVars,
                 srtEntries, basePromptTokens, maxModelTokens, chunks,
                 rechunked, index, translatedSrtContent, usage, logVars>>
  /\ UNCHANGED uiVars

AddStats(a, b) ==
  [tokensUsed |-> a.tokensUsed + b.tokensUsed,
   inputTokens |-> a.inputTokens + b.inputTokens,
   outputTokens |-> a.outputTokens + b.outputTokens,
   apiCalls |-> a.apiCalls + b.apiCalls]

\* translateSRT lines 274-294: the result of one language is folded in
LanguageDone ==
  /\ pc = "translate" /\ tpc = "returned"
  /\ IF translationResult # Undefined
     THEN /\ translationStats' = AddStats(translationStats, translationResult)
          /\ progress' = Append(progress,
                           LanguageProgress("Translated SRT file generated for"))
     ELSE /\ translationStats' = translationStats
          /\ progress' = Append(progress, LanguageProgress("Failed to translate to"))
  /\ langIdx' = langIdx + 1
  /\ tpc' = "none" /\ srtEntries' = <<>> /\ basePromptTokens' = 0
  /\ maxModelTokens' = 0 /\ chunks' = <<>> /\ rechunked' = FALSE /\ index' = 0
  /\ translatedSrtContent' = <<>> /\ usage' = NoUsage
  /\ translationResult' = NoStats
  /\ UNCHANGED <<fileVars, runVars, transcribeVars, detectedLanguage, calls>>
  /\ UNCHANGED uiVars

\* cleanupTemporaryFiles: every output_audio_part*.mp3 is unlinked
CleanedUp == [idx \in ChunkIndexes |-> NoFile]

\* translateSRT returns; processVideo lines 69-79
Complete ==
  /\ pc = "translate" /\ tpc = "none" /\ langIdx = totalTranslations
  /\ audioDir' = CleanedUp
  /\ progress' = Append(progress, Event(100, 1, "Processing completed."))
  /\ pc' = "done" /\ outcome' = Resolved(translationStats)
  /\ UNCHANGED <<originalSrt, outputs, run, input, transcribeVars, srtVars,
                 translateVars, calls>>
  /\ UNCHANGED uiVars

Next ==
  \/ \E inp \in Inputs : ProcessVideo(inp)
  \/ \E n \in 0..MaxChunks : \E last \in LastDurations :
       SplitEnd(n, ChunkDurations(n, last))
  \/ \E n \in 0..MaxChunks : \E last \in LastDurations :
       SplitError(n, ChunkDurations(n, last))
  \/ \E order \in Listings(Present) : ListAudioFiles(order)
  \/ \E answer \in Answers : TranscribeChunk(answer.segments, answer.language)
  \/ TranscribeFails
  \/ \E answer \in Answers : ProbeFails(answer.segments, answer.language)
  \/ MergeTranscriptions
  \/ TranslateLanguage
  \/ TranslateSubtitles
  \/ ChunkTooLarge
  \/ \E extra \in ExtraEntries : \E withUsage \in BOOLEAN :
       TranslateChunk(extra, withUsage)
  \/ TranslateChunkFails
  \/ SaveTranslation
  \/ LanguageDone
  \/ Complete

Spec == Init /\ [][Next]_vars

(***************************************************************************)
(* translateSubtitles alone, on documents of up to MaxEntries entries: the *)
(* call starts with the merged file of a document already written.  The    *)
(* translation service answers each request well-formed or fails.          *)
(***************************************************************************)
DocSizes == {n \in 0..MaxEntries : n <= SmallDocs \/ n >= LargeDocsFrom}
DocKinds == {"short", "long", "mixed"}

DocText(kind, k) ==
  CASE kind = "short" -> <<"hello">>
    [] kind = "long" -> <<"long">>
    [] OTHER -> IF k % 4 = 0 THEN <<"huge">> ELSE <<"hello">>

\* n segments one second apart
DocSegments(n, kind) ==
  [k \in 1..n |-> Seg(k * TicksPerSecond, k * TicksPerSecond + 5000,
                      DocText(kind, k))]

Document(n, kind) == SrtContent(DocSegments(n, kind))

InitChunker ==
  /\ audioDir = [idx \in ChunkIndexes |-> NoFile]
  /\ run = 1 /\ pc = "translate" /\ outcome = Pending
  /\ \E lang \in {"es", "ja"} : \E model \in Models :
       input = [videoExists |-> TRUE, targetLanguages |-> <<lang>>,
                model |-> model]
  /\ audioFiles = <<>> /\ i = 0 /\ allSegments = <<>>
  /\ cumulativeDuration = 0
  /\ \E n \in DocSizes : \E kind \in DocKinds :
       originalSrt = [run |-> 1, lines |-> Document(n, kind)]
  /\ detectedLanguage = "en" /\ langIdx = 0
  /\ translationStats = NoStats
  /\ tpc = "called" /\ srtEntries = <<>> /\ basePromptTokens = 0
  /\ maxModelTokens = 0 /\ chunks = <<>> /\ rechunked = FALSE /\ index = 0
  /\ translatedSrtContent = <<>> /\ usage = NoUsage
  /\ translationResult = NoStats
  /\ outputs = NoOutputs /\ progress = <<>> /\ calls = <<>>
  /\ InitRenderer

NextChunker ==
  \/ TranslateSubtitles
  \/ ChunkTooLarge
  \/ TranslateChunk(0, TRUE)
  \/ TranslateChunkFails
  \/ SaveTranslation

SpecChunker == InitChunker /\ [][NextChunker]_vars

(***************************************************************************)
(* Properties of the chunks translateSubtitles builds (SpecChunker).       *)
(***************************************************************************)
ChunksBuilt == tpc \in {"dispatch", "returned"}
NumEntries == Len(srtEntries)
tokensPerRequest == maxModelTokens - reservedTokens

\* chunks lo..hi one after the other
RECURSIVE Concatenated(_, _, _)
Concatenated(cs, lo, hi) ==
  IF lo > hi THEN <<>>
  ELSE IF lo = hi THEN cs[lo]
  ELSE LET mid == (lo + hi) \div 2
       IN Concatenated(cs, lo, mid) \o Concatenated(cs, mid + 1, hi)

\* currentChunkTokens of a finished chunk: overhead plus raw entry costs
EstimatedTokens(chunk) == basePromptTokens + ChunkRawTokens(srtEntries, chunk)

TranslateCalls == SelectSeq(calls, LAMBDA c : c.kind = "translate")

\* C1: the chunks, one after the other, are the entries of the document in
\* their order, each exactly once, with the greedy result as with the
\* fallback's.
C1_Partition ==
  ChunksBuilt =>
    Concatenated(chunks, 1, Len(chunks)) = [k \in 1..NumEntries |-> k]

C1_Witness ==
  /\ ChunksBuilt /\ rechunked
  /\ Len(chunks) > 1
  /\ Len(chunks[Len(chunks)]) < Len(chunks[1])

\* C2: at most maxApiCalls chunks are dispatched, hence at most maxApiCalls
\* translation requests are sent for the language.
C2_CallCeiling ==
  ChunksBuilt =>
    /\ Len(chunks) <= maxApiCalls
    /\ Len(TranslateCalls) <= maxApiCalls

C2_Witness ==
  /\ tpc = "returned" /\ rechunked
  /\ Len(chunks) = maxApiCalls
  /\ Len(TranslateCalls) = maxApiCalls

\* C3 as claimed: every chunk has at most maxEntriesPerChunk entries, from
\* the greedy pass or from the fallback.
C3_EntryCapAlways ==
  ChunksBuilt =>
    \A c \in 1..Len(chunks) : Len(chunks[c]) <= maxEntriesPerChunk

\* C3 amended: a chunk of the greedy pass has at most maxEntriesPerChunk
\* entries; a chunk of the fallback has at most ceil(N / maxApiCalls)
\* entries, which is more than maxEntriesPerChunk for the documents of more
\* than maxEntriesPerChunk * maxApiCalls entries.
C3_EntryCap ==
  ChunksBuilt =>
    \A c \in 1..Len(chunks) :
      Len(chunks[c]) <= IF rechunked THEN CeilDiv(NumEntries, maxApiCalls)
                        ELSE maxEntriesPerChunk

C3_Witness ==
  /\ ChunksBuilt /\ rechunked
  /\ \E c \in 1..Len(chunks) : Len(chunks[c]) > maxEntriesPerChunk

\* C4 as claimed: every chunk has overhead plus raw entry costs within
\* tokensPerRequest.
C4_TokenBudgetAlways ==
  ChunksBuilt =>
    \A c \in 1..Len(chunks) : EstimatedTokens(chunks[c]) <= tokensPerRequest

\* C4 amended: a chunk of two or more entries built by the greedy pass has
\* overhead plus raw entry costs within tokensPerRequest; a chunk of one
\* entry and a chunk of the fallback may exceed it.
C4_TokenBudget ==
  (ChunksBuilt /\ ~rechunked) =>
    \A c \in 1..Len(chunks) :
      Len(chunks[c]) >= 2 => EstimatedTokens(chunks[c]) <= tokensPerRequest

C4_Witness ==
  /\ ChunksBuilt /\ ~rechunked
  /\ \E c \in 1..Len(chunks) :
       /\ Len(chunks[c]) >= 2 /\ Len(chunks[c]) < maxEntriesPerChunk
       /\ c < Len(chunks)
  /\ \E c \in 1..Len(chunks) :
       Len(chunks[c]) = 1 /\ EstimatedTokens(chunks[c]) > tokensPerRequest

\* C5: more than maxApiCalls greedy chunks are replaced by the slices of
\* ceil(N / maxApiCalls) consecutive entries, the last one possibly shorter;
\* otherwise the greedy chunks are dispatched.  With 40 entries and a
\* ceiling of 2 the slices are two chunks of 20.
C5_Fallback ==
  /\ RechunkWith(40, 2) = <<[k \in 1..20 |-> k], [k \in 1..20 |-> 20 + k]>>
  /\ ChunksBuilt =>
       LET greedy == GreedyChunks(srtEntries, basePromptTokens, tokensPerRequest)
           size == CeilDiv(NumEntries, maxApiCalls)
       IN IF Len(greedy) > maxApiCalls
          THEN /\ Len(chunks) = CeilDiv(NumEntries, size)
               /\ \A c \in 1..Len(chunks) :
                    /\ Len(chunks[c]) =
                         IF c < Len(chunks) THEN size
                         ELSE NumEntries - (Len(chunks) - 1) * size
                    /\ \A k \in 1..Len(chunks[c]) :
                         chunks[c][k] = (c - 1) * size + k
          ELSE chunks = greedy

C5_Witness ==
  /\ ChunksBuilt /\ rechunked
  /\ Len(chunks[Len(chunks)]) < CeilDiv(NumEntries, maxApiCalls)
  /\ Len(chunks[Len(chunks)]) > 0

(***************************************************************************)
(* Properties of a processVideo run (Spec).                                *)
(***************************************************************************)
TranscribeCalls == SelectSeq(calls, LAMBDA c : c.kind = "transcribe")
MergedWritten == originalSrt.run = run /\ run > 0
IdLines == SelectSeq(originalSrt.lines, LAMBDA l : l.k = "id")
TimeLines == SelectSeq(originalSrt.lines, LAMBDA l : l.k = "time")

\* C6: in the merged document written, the start times do not decrease and
\* the ids are 1..N in that order.
C6_MergedOrdered ==
  MergedWritten =>
    /\ Len(IdLines) = Len(allSegments)
    /\ \A k \in 1..Len(IdLines) : IdLines[k].n = k
    /\ \A k \in 1..(Len(TimeLines) - 1) : TimeLines[k].t1 <= TimeLines[k + 1].t1
    /\ \A k \in 1..(Len(allSegments) - 1) :
         allSegments[k].start <= allSegments[k + 1].start

\* the segments "b" then "a" of one answer, merged as "a" then "b"
C6_Witness ==
  /\ MergedWritten /\ Len(allSegments) >= 3
  /\ \E k \in 1..(Len(allSegments) - 1) :
       allSegments[k].text = <<"", "a", "">> /\ allSegments[k + 1].text = <<"b">>

\* sum of the durations of the chunk files of index below idx
RECURSIVE DurationBelow(_)
DurationBelow(idx) ==
  IF idx = 0 THEN 0
  ELSE DurationBelow(idx - 1) + audioDir[idx - 1].duration

\* C7: the offset added to the segments of chunk i is the sum of the
\* durations of the chunks of lower index, whatever the order in which the
\* files are listed.
C7_OffsetByIndex ==
  pc = "transcribe" =>
    \A k \in 1..Len(TranscribeCalls) :
      TranscribeCalls[k].offset = DurationBelow(TranscribeCalls[k].file)

\* C8: a failed transcription ends the run: the failed request is the last
\* request of the run and was sent once, the run is rejected, no merged
\* document is written, no translation is requested.
C8_TranscriptionFailureFatal ==
  \A k \in 1..Len(calls) :
    (calls[k].kind = "transcribe" /\ ~calls[k].ok) =>
      /\ k = Len(calls)
      /\ \A j \in 1..(k - 1) : calls[j].file # calls[k].file
      /\ pc = "failed" /\ outcome.status = "rejected"
      /\ ~MergedWritten
      /\ Len(TranslateCalls) = 0
      /\ \A lang \in DOMAIN outputs : outputs[lang].run # run

C8_Witness ==
  /\ Len(calls) = 1 /\ ~calls[1].ok /\ calls[1].kind = "transcribe"
  /\ totalAudioChunks = 2
  /\ pc = "failed"

\* C9: when a chunk is answered with zero segments the run fails and no
\* merged document is written.
C9_EmptyTranscriptionFatal ==
  (\E k \in 1..Len(calls) :
     calls[k].kind = "transcribe" /\ calls[k].ok /\ calls[k].segments = 0)
    => (~MergedWritten /\ pc # "done")

\* C10: when processVideo has settled, no chunk file written by that run is
\* left in the audio directory.
C10_ChunksRemoved ==
  (run > 0 /\ Settled) => \A idx \in ChunkIndexes : audioDir[idx].run # run

\* C11: every chunk file transcribed in a run was written by the split of
\* that run: no file left by an earlier run is transcribed.
C11_OwnChunksOnly ==
  \A k \in 1..Len(calls) :
    calls[k].kind = "transcribe" => calls[k].writer = run

\* percentage a is at most percentage b
PercentLeq(a, b) == a.num * b.den <= b.num * a.den

\* C12: within a run the percentages given to progressCallback lie in 0..100
\* and never decrease, on the paths that succeed and on those that fail.
C12_ProgressMonotonic ==
  \A k \in 1..Len(progress) :
    /\ 0 <= progress[k].num /\ progress[k].num <= 100 * progress[k].den
    /\ k > 1 => PercentLeq(progress[k - 1], progress[k])

C12_Witness ==
  /\ pc = "done" /\ totalAudioChunks = 2 /\ totalTranslations = 2
  /\ Len(progress) = 11
  /\ progress[Len(progress)].num = 100

\* C13 as claimed: the apiCalls returned by a completed run counts the
\* transcription requests and the translation requests of the run.
C13_ApiCallsCountAll ==
  pc = "done" =>
    outcome.stats.apiCalls = Len(TranscribeCalls) + Len(TranslateCalls)

\* total_tokens of the usage answered to calls 1..k
RECURSIVE SpentTokens(_)
SpentTokens(k) ==
  IF k = 0 THEN 0 ELSE SpentTokens(k - 1) + calls[k].tokens

\* C14 as claimed: the tokens of every translation request that was answered
\* are in the statistics a completed run returns, whatever failed later.
C14_SpentUsageKept ==
  pc = "done" => outcome.stats.tokensUsed >= SpentTokens(Len(calls))

\* C15: every translation request sent carries as max_tokens the context
\* window less the prompt cost of its chunk less the reserve, and that is
\* positive: a chunk that leaves no room for a response is never sent.
C15_PositiveMaxTokens ==
  \A k \in 1..Len(calls) :
    calls[k].kind = "translate" =>
      /\ calls[k].maxTokens > 0
      /\ calls[k].maxTokens =
           maxModelTokens
             - CountMessageTokens(srtEntries, chunks[calls[k].chunk],
                                  basePromptTokens)
             - reservedTokens

\* chunks were sent, then one left no room and was not
C15_Witness ==
  /\ tpc = "returned" /\ translationResult = Undefined
  /\ index >= 1 /\ Len(TranslateCalls) = index
  /\ maxModelTokens
       - CountMessageTokens(srtEntries, chunks[index + 1], basePromptTokens)
       - reservedTokens <= 0

\* the event translateSRT emits for the language at position pos
LanguageEvent(pos, msg) ==
  Event(60 * totalTranslations + 30 * pos, totalTranslations, msg)

Emitted(event) == \E k \in 1..Len(progress) : progress[k] = event

\* the target languages, by position, one of whose chunks failed in this
\* run: a request that threw, or a chunk that left no room for a response
\* (translateSubtitles returned undefined)
FailedPositions ==
  {pos \in 1..totalTranslations :
     \/ \E k \in 1..Len(calls) :
          /\ calls[k].kind = "translate" /\ ~calls[k].ok
          /\ calls[k].lang = targetLanguages[pos]
     \/ Emitted(LanguageEvent(pos, "Failed to translate to"))
     \/ /\ pos = langIdx + 1 /\ tpc = "returned"
        /\ translationResult = Undefined}

\* C16: a language one of whose chunks failed gets no output file, the run
\* is not rejected for it, and a run that returns has started every target
\* language.
C16_LanguageFailureIsolated ==
  /\ \A pos \in FailedPositions : outputs[targetLanguages[pos]].run # run
  /\ FailedPositions # {} => outcome.status # "rejected"
  /\ pc = "done" =>
       \A pos \in 1..totalTranslations :
         Emitted(LanguageEvent(pos, "Translating subtitles to"))

\* the first language failed, the second was translated and written
C16_Witness ==
  /\ pc = "done" /\ totalTranslations = 2
  /\ 1 \in FailedPositions /\ 2 \notin FailedPositions
  /\ outputs[targetLanguages[2]].run = run
  /\ Len(TranslateCalls) >= 1

\* C17 as claimed: a run returns only when some target language was
\* translated without a failed chunk; when every language failed, the run
\* is rejected.
C17_FailsWhenNoLanguageSucceeds ==
  pc = "done" => \E pos \in 1..totalTranslations : pos \notin FailedPositions

\* C18 as claimed: a language one of whose chunks failed is never reported
\* with the success message, and once handled it is reported as failed.
C18_FailureReported ==
  \A pos \in FailedPositions :
    /\ ~Emitted(LanguageEvent(pos, "Translated SRT file generated for"))
    /\ pos <= langIdx => Emitted(LanguageEvent(pos, "Failed to translate to"))

\* C19 as claimed: the file written for a language holds, for every chunk,
\* a response of as many entries as the chunk sent.
C19_ResponseCountChecked ==
  (tpc = "returned" /\ outputs[targetLanguage].run = run) =>
    \A p \in 1..Len(outputs[targetLanguage].content) :
      LET piece == outputs[targetLanguage].content[p]
      IN piece.entries = Len(chunks[piece.chunk])

\* the answered transcription requests that reported a language
Reporting ==
  {k \in 1..Len(calls) :
     calls[k].kind = "transcribe" /\ calls[k].ok /\ calls[k].language # ""}

\* the language reported for the chunk file of lowest index that has one
ExpectedLanguage ==
  IF Reporting = {} THEN "en"
  ELSE LET first == CHOOSE k \in Reporting :
                      \A j \in Reporting : calls[k].file <= calls[j].file
       IN calls[first].language

\* C20 as claimed: the detected language of the merged document is the
\* language reported for the lowest-indexed chunk that reported one, and
\* "en" only when no chunk reported one.
C20_DetectedLanguage ==
  MergedWritten => detectedLanguage = ExpectedLanguage

NotFound == "Video file not found at the specified path."

\* C21: a call whose videoPath does not exist is rejected with the not-found
\* error before anything starts: no progress event, no chunk file written,
\* no request.  A call whose transcoder reports an error is rejected with
\* that error and sends no request.
C21_EarlyFailures ==
  /\ (run > 0 /\ ~input.videoExists) =>
       /\ pc = "failed" /\ outcome = Rejected(NotFound)
       /\ progress = <<>> /\ calls = <<>>
       /\ \A idx \in ChunkIndexes : audioDir[idx].run # run
       /\ ~MergedWritten
  /\ outcome.error = "ffmpeg" =>
       /\ pc = "failed" /\ outcome.status = "rejected"
       /\ calls = <<>> /\ ~MergedWritten

\* the second call names a missing file while chunk files of the first call
\* lie in the audio directory
C21_Witness ==
  /\ run = 2 /\ ~input.videoExists /\ outcome.error = NotFound
  /\ Present # {}

\* the split of this run wrote no chunk file
NoOwnChunk == \A idx \in ChunkIndexes : audioDir[idx].run # run

\* C22 as claimed: a run whose split wrote no chunk fails: it writes no
\* merged document, requests no translation and does not complete.
C22_ZeroChunksFatal ==
  /\ (pc \in {"list", "transcribe", "translate"} /\ NoOwnChunk) =>
       (~MergedWritten /\ Len(TranslateCalls) = 0)
  /\ pc = "done" =>
       \E k \in 1..Len(calls) :
         calls[k].kind = "transcribe" /\ calls[k].writer = run

(***************************************************************************)
(* mergeTranscriptions followed by the reading of translateSubtitles, on   *)
(* documents of up to MaxDocSegments segments whose texts are one line,    *)
(* empty, two lines, padded with line breaks, or two lines around an empty *)
(* line.                                                                   *)
(***************************************************************************)
SegmentTexts ==
  { <<"hello">>, <<>>, <<"a", "b">>, <<"", "a", "">>, <<"a", "", "b">> }

\* end less start of a segment, in ticks: 1.5 s, less than a millisecond,
\* negative
SegmentSpans == {15000, 4, -5000}

\* the documents of n segments: segment k starts at k.2345 s
SegmentDocs(n) ==
  {[k \in 1..n |-> Seg(k * TicksPerSecond + 2345,
                       k * TicksPerSecond + 2345 + spans[k], texts[k])] :
     texts \in [1..n -> SegmentTexts], spans \in [1..n -> SegmentSpans]}

InitRoundTrip ==
  /\ audioDir = [idx \in ChunkIndexes |-> NoFile]
  /\ run = 1 /\ pc = "transcribe" /\ outcome = Pending
  /\ input = [videoExists |-> TRUE, targetLanguages |-> <<"es">>,
              model |-> "gpt-4o"]
  /\ audioFiles = <<>> /\ i = 0
  /\ \E n \in 0..MaxDocSegments : allSegments \in SegmentDocs(n)
  /\ cumulativeDuration = 0
  /\ originalSrt = NoSrt /\ detectedLanguage = "" /\ langIdx = 0
  /\ translationStats = NoStats
  /\ TranslateIdle
  /\ outputs = NoOutputs /\ progress = <<>> /\ calls = <<>>
  /\ InitRenderer

NextRoundTrip ==
  \/ MergeTranscriptions
  \/ TranslateLanguage
  \/ TranslateSubtitles

SpecRoundTrip == InitRoundTrip /\ [][NextRoundTrip]_vars

\* entry k of the document: its id, its times at millisecond precision and
\* its trimmed text
DocumentEntry(k) ==
  <<IdLine(k),
    TimeLine(secondsToSRTTime(allSegments[k].start),
             secondsToSRTTime(allSegments[k].end))>>
    \o Trim(TextLines(TrimText(allSegments[k].text)))

\* C23 as claimed: the entries translateSubtitles reads from the file
\* mergeTranscriptions wrote are the entries of the document: as many, with
\* the same ids, time ranges and text.
C23_RoundTrip ==
  tpc = "dispatch" =>
    /\ Len(srtEntries) = Len(allSegments)
    /\ \A k \in 1..Len(srtEntries) : srtEntries[k] = DocumentEntry(k)

\* the translation requests of the run for a language, in the order sent
LanguageCalls(lang) ==
  SelectSeq(calls, LAMBDA c : c.kind = "translate" /\ c.lang = lang)

\* C24: no request is sent twice in a run: the audio files requested are
\* all different and so are the (chunk, language) pairs; the requests of a
\* language are for chunks 1, 2, ... in that order, all of them when its
\* file is written; every translation request comes after the merged
\* document is written and after every transcription request.
C24_NoRetry ==
  /\ \A j, k \in 1..Len(calls) :
       (j < k /\ calls[j].kind = calls[k].kind) =>
         IF calls[k].kind = "transcribe"
         THEN calls[j].file # calls[k].file
         ELSE calls[j].lang # calls[k].lang \/ calls[j].chunk # calls[k].chunk
  /\ \A j, k \in 1..Len(calls) :
       (calls[j].kind = "translate" /\ calls[k].kind = "transcribe") => k < j
  /\ Len(TranslateCalls) > 0 => MergedWritten
  /\ \A lang \in DOMAIN outputs :
       /\ \A j \in 1..Len(LanguageCalls(lang)) : LanguageCalls(lang)[j].chunk = j
       /\ (tpc = "returned" /\ targetLanguage = lang /\ outputs[lang].run = run)
            => Len(LanguageCalls(lang)) = Len(chunks)

\* two audio chunks were transcribed and a language of two chunks written
C24_Witness ==
  /\ tpc = "returned" /\ outputs[targetLanguage].run = run
  /\ Len(chunks) = 2 /\ Len(LanguageCalls(targetLanguage)) = 2
  /\ Len(TranscribeCalls) = 2

\* C25 as claimed: no segment of the merged document ends before it starts,
\* and every entry written ends after it starts at millisecond precision.
C25_DegenerateRejected ==
  MergedWritten =>
    /\ \A k \in 1..Len(allSegments) : allSegments[k].end >= allSegments[k].start
    /\ \A k \in 1..Len(TimeLines) : TimeLines[k].t2 > TimeLines[k].t1

(***************************************************************************)
(* Properties of the greedy pass, entry by entry (SpecChunker).            *)
(***************************************************************************)
\* what is claimed of the loop state after an entry: the buffer is not
\* empty, its count is the overhead plus the raw costs of its entries, the
\* chunk closed last is not empty
BufferInvariant(st, entries, base) ==
  /\ st.currentChunkEntries # <<>>
  /\ st.currentChunkTokens = base + ChunkRawTokens(entries, st.currentChunkEntries)
  /\ st.chunks # <<>> => st.chunks[Len(st.chunks)] # <<>>

\* the loop run over entries[lo..hi] from acc.st, with BufferInvariant
\* evaluated after every iteration
RECURSIVE AuditRange(_, _, _, _, _, _)
AuditRange(acc, entries, lo, hi, base, limit) ==
  IF lo > hi THEN acc
  ELSE IF lo = hi
  THEN LET st == GreedyStep(acc.st, entries, lo, base, limit)
       IN [st |-> st, ok |-> acc.ok /\ BufferInvariant(st, entries, base)]
  ELSE LET mid == (lo + hi) \div 2
           half == AuditRange(acc, entries, lo, mid, base, limit)
       IN IF half.st.currentChunkTokens < base
          THEN half
          ELSE AuditRange(half, entries, mid + 1, hi, base, limit)

JustBuilt == tpc = "dispatch" /\ index = 0

\* C26: after every entry of the greedy pass the buffer is not empty and its
\* running count is the prompt overhead plus the raw costs of the entries in
\* it; no chunk emitted is empty.
C26_BufferInvariant ==
  JustBuilt =>
    LET audit == AuditRange([st |-> GreedyInit(basePromptTokens), ok |-> TRUE],
                            srtEntries, 1, NumEntries, basePromptTokens,
                            tokensPerRequest)
    IN /\ audit.ok
       /\ \A c \in 1..Len(GreedyFlush(audit.st)) : GreedyFlush(audit.st)[c] # <<>>

\* a greedy result with a chunk of several entries closed by the fit test:
\* its raw count is within the budget, the expanded cost of the next entry
\* was not
C26_Witness ==
  /\ JustBuilt /\ ~rechunked
  /\ \E c \in 1..(Len(chunks) - 1) :
       /\ Len(chunks[c]) >= 2 /\ Len(chunks[c]) < maxEntriesPerChunk
       /\ EstimatedTokens(chunks[c]) <= tokensPerRequest
       /\ EstimatedTokens(chunks[c]) + 3 * EntryTokens(srtEntries[chunks[c + 1][1]])
            > tokensPerRequest

\* the chunks whose overhead plus raw entry costs exceed tokensPerRequest
OverBudget == {c \in 1..Len(chunks) : EstimatedTokens(chunks[c]) > tokensPerRequest}

\* C27: when the fallback is not taken, a chunk over the token budget holds
\* exactly one entry, and a chunk of two or more entries is within it.
C27_OverBudgetSingleton ==
  (ChunksBuilt /\ ~rechunked) =>
    /\ \A c \in OverBudget : Len(chunks[c]) = 1
    /\ \A c \in 1..Len(chunks) : Len(chunks[c]) >= 2 => c \notin OverBudget

\* an over-budget chunk of one entry between two chunks of several entries
C27_Witness ==
  /\ ChunksBuilt /\ ~rechunked
  /\ \E c \in OverBudget :
       /\ 1 < c /\ c < Len(chunks)
       /\ Len(chunks[c - 1]) >= 2 /\ Len(chunks[c + 1]) >= 2

(***************************************************************************)
(* A run to its end.  A run is either a processVideo call in a clean audio *)
(* directory, or one that has reached translateSubtitles on a document of  *)
(* up to MaxEntries entries; requests are answered well-formed or fail.    *)
(* Once processVideo is called, its next step is taken: a synchronous      *)
(* statement, or the continuation of an await on a collaborator call that  *)
(* returns or fails.                                                       *)
(***************************************************************************)
RunStep ==
  \/ \E n \in 0..MaxChunks : \E last \in LastDurations :
       SplitEnd(n, ChunkDurations(n, last))
  \/ \E n \in 0..MaxChunks : \E last \in LastDurations :
       SplitError(n, ChunkDurations(n, last))
  \/ \E order \in Listings(Present) : ListAudioFiles(order)
  \/ \E answer \in Answers : TranscribeChunk(answer.segments, answer.language)
  \/ TranscribeFails
  \/ \E answer \in Answers : ProbeFails(answer.segments, answer.language)
  \/ TranslateLanguage
  \/ ChunkTooLarge
  \/ TranslateChunk(0, TRUE)
  \/ TranslateChunkFails
  \/ SaveTranslation
  \/ LanguageDone
  \/ Complete

FirstCall == \E inp \in Inputs : run = 0 /\ ProcessVideo(inp)

InitLive == Init \/ InitChunker
NextLive == FirstCall \/ RunStep \/ MergeTranscriptions \/ TranslateSubtitles

\* The merge is enabled exactly when every listed file is transcribed, the
\* chunk building exactly when translateSubtitles has been called; each
\* changes pc or tpc, so its weak fairness is written out with that guard in
\* place of ENABLED.
SpecLive ==
  /\ InitLive /\ [][NextLive]_vars
  /\ WF_vars(RunStep)
  /\ \/ []<>(~(pc = "transcribe" /\ i = totalAudioChunks))
     \/ []<><<MergeTranscriptions>>_vars
  /\ \/ []<>(tpc # "called")
     \/ []<><<TranslateSubtitles>>_vars

\* C28: the chunk building ends for every document, the fallback slicing
\* with a slice size of at least 1, and a run that has started settles: it
\* returns or throws.
C28_Terminates ==
  /\ [](rechunked => CeilDiv(NumEntries, maxApiCalls) >= 1)
  /\ (tpc = "called" ~> ChunksBuilt)
  /\ (~Settled ~> Settled)

\* a run that took the fallback and returned
C28_Witness ==
  /\ pc = "done"
  /\ \E lang \in DOMAIN outputs :
       /\ outputs[lang].run = run
       /\ \E p \in 1..Len(outputs[lang].content) :
            outputs[lang].content[p].entries > maxEntriesPerChunk

\* C29: an event of 100% is the "Processing completed." of a run that
\* returned, given after the temporary files were removed, and it is the last
\* event of the run; a run that throws has reported no 100%.
C29_HundredLast ==
  \A k \in 1..Len(progress) :
    progress[k].num = 100 * progress[k].den =>
      /\ progress[k] = Event(100, 1, "Processing completed.")
      /\ k = Len(progress)
      /\ pc = "done" /\ outcome.status = "resolved"
      /\ audioDir = CleanedUp

\* a run that transcribed two files, failed one language and returned
C29_Witness ==
  /\ pc = "done" /\ totalAudioChunks = 2
  /\ \E pos \in 1..totalTranslations :
       Emitted(LanguageEvent(pos, "Failed to translate to"))
  /\ progress[Len(progress)] = Event(100, 1, "Processing completed.")
  /\ audioDir = CleanedUp

(***************************************************************************)
(* The window: renderer.js and the IPC handlers of main.js.  The directory *)
(* dialog is opened with no parent window (main.js 64), so it is not modal *)
(* and the form stays usable while it is open.  A run is counted from the  *)
(* process:video invocation to its answer; the pipeline variables are left *)
(* at rest.                                                                *)
(***************************************************************************)
MaxHandlers == 2

UiLanguages == {"en", "ja", "es", "fr"}

pipelineVars ==
  <<fileVars, runVars, transcribeVars, srtVars, translateVars, logVars>>

\* selectFileBtn click, lines 42-48, a file being chosen
SelectFile ==
  /\ selectedVideoPath' = "video.mp4"
  /\ UNCHANGED <<checked, apiKeyInput, modelSelect, startBtnDisabled,
                 choosing, processing, pipelineVars>>

\* a language checkbox is clicked
ToggleLanguage(lang) ==
  /\ checked' = IF lang \in checked THEN checked \ {lang}
                ELSE checked \cup {lang}
  /\ UNCHANGED <<selectedVideoPath, apiKeyInput, modelSelect,
                 startBtnDisabled, choosing, processing, pipelineVars>>

\* the key field is edited and left: the blur handler, lines 71-97, fills
\* the model list when models were fetched and empties it otherwise
BlurApiKey(key, fetched) ==
  /\ apiKeyInput' = key
  /\ modelSelect' = IF key # "" /\ fetched THEN "gpt-4o" ELSE ""
  /\ UNCHANGED <<selectedVideoPath, checked, startBtnDisabled, choosing,
                 processing, pipelineVars>>

\* startBtn click, lines 123-154: a disabled button gives no click; the
\* four tests pass and the handler awaits selectDirectory
StartClick ==
  /\ ~startBtnDisabled
  /\ choosing + processing < MaxHandlers
  /\ selectedVideoPath # Null
  /\ checked # {}
  /\ apiKeyInput # ""
  /\ modelSelect # ""
  /\ choosing' = choosing + 1
  /\ UNCHANGED <<selectedVideoPath, checked, apiKeyInput, modelSelect,
                 startBtnDisabled, processing, pipelineVars>>

\* lines 154-158: the dialog is cancelled and the handler returns
DirectoryCancelled ==
  /\ choosing > 0
  /\ choosing' = choosing - 1
  /\ UNCHANGED <<selectedVideoPath, checked, apiKeyInput, modelSelect,
                 startBtnDisabled, processing, pipelineVars>>

\* lines 160-171: a directory is chosen, the button is disabled and
\* process:video invoked; main.js 75-89 calls processVideo at once
DirectoryChosen ==
  /\ choosing > 0
  /\ choosing' = choosing - 1
  /\ startBtnDisabled' = TRUE
  /\ processing' = processing + 1
  /\ UNCHANGED <<selectedVideoPath, checked, apiKeyInput, modelSelect,
                 pipelineVars>>

\* lines 173-193 and 197-200: the run returned; the key and the model list
\* are cleared and the button enabled
ProcessingResolved ==
  /\ processing > 0
  /\ processing' = processing - 1
  /\ apiKeyInput' = "" /\ modelSelect' = ""
  /\ startBtnDisabled' = FALSE
  /\ UNCHANGED <<selectedVideoPath, checked, choosing, pipelineVars>>

\* lines 194-200: the run threw; the button is enabled
ProcessingRejected ==
  /\ processing > 0
  /\ processing' = processing - 1
  /\ startBtnDisabled' = FALSE
  /\ UNCHANGED <<selectedVideoPath, checked, apiKeyInput, modelSelect,
                 choosing, pipelineVars>>

NextRenderer ==
  \/ SelectFile
  \/ \E lang \in UiLanguages : ToggleLanguage(lang)
  \/ \E key \in {"", "sk"} : \E fetched \in BOOLEAN : BlurApiKey(key, fetched)
  \/ StartClick
  \/ DirectoryCancelled
  \/ DirectoryChosen
  \/ ProcessingResolved
  \/ ProcessingRejected

SpecRenderer == Init /\ [][NextRenderer]_vars

\* C30 as claimed: at most one processVideo run is in flight at any time.
C30_OneRunInFlight == processing <= 1

====
